---- MODULE Spec2Model ----
(***************************************************************************)
(* The quantum state evolution engine: complex arithmetic, the exact       *)
(* StateVector register (src/quantum/state-vector.ts) and the local        *)
(* QuantumCircuit/Qubit register (quantum-circuit.ts, src/quantum/qubit.ts *)
(* and src/quantum/quantum-gates.ts).                                      *)
(*                                                                         *)
(* Numbers.  A JavaScript number is modelled in one of two ways.  Exactly: *)
(* NaN, +/-Infinity, or a real of the form  sg * (n/d) * sqrt(r)  with r   *)
(* squarefree; products, quotients and the square roots the code takes     *)
(* (always of a sum of squared magnitudes, a rational) stay in this form.  *)
(* Or as the IEEE 754 binary64 value it is, every operation rounding to    *)
(* nearest.  The operations take either; Spec, SpecTrace and SpecCircuit   *)
(* hand the program exact values and SpecDouble hands it doubles.  A value *)
(* neither form holds is flagged as Unrep, and the invariants              *)
(* AllRepresentable and AllQubitsRepresentable show that no reachable      *)
(* state holds one.                                                        *)
(***************************************************************************)
EXTENDS Integers, Sequences, FiniteSets, TLC

(***************************************************************************)
(* Bounds of the exploration                                               *)
(***************************************************************************)
\* operations other than construction are explored on registers of at most
\* this many qubits
MaxQubits == 2
\* Math.random() is drawn from {0/RandomDen, ..., (RandomDen-1)/RandomDen}
RandomDen == 4
\* largest numQubits handed to the StateVector constructor
MaxCtorArg == 17
\* longest recorded operation list of the local circuit
MaxOps == 1
\* longest call history kept since the register last held a known basis state
TraceLen == 4
\* the binary64 amplitudes handed to setState are Math.sqrt(k / AmplitudeDen)
AmplitudeDen == 16

(***************************************************************************)
(* JavaScript numbers                                                      *)
(***************************************************************************)
RECURSIVE GCD(_, _)
GCD(a, b) == IF b = 0 THEN a ELSE GCD(b, a % b)

NaN == [sg |-> 0, n |-> 0, d |-> 0, r |-> 0]
PosInf == [sg |-> 1, n |-> 1, d |-> 0, r |-> 0]
NegInf == [sg |-> -1, n |-> 1, d |-> 0, r |-> 0]
\* a real outside the value domain (see the module comment)
Unrep == [sg |-> 0, n |-> 0, d |-> 0, r |-> 2]
Zero == [sg |-> 0, n |-> 0, d |-> 1, r |-> 1]

\* a finite non-zero double of value sg * m * 2^e (see the binary64 section
\* below); the fields d and r tell it from the values of the exact form
Dbl(sg, m, e) == [sg |-> sg, m |-> m, e |-> e, d |-> 1, r |-> -1]

IsDbl(x) == x.r = -1

IsNaN(x) == x = NaN
IsInf(x) == x = PosInf \/ x = NegInf
IsFinite(x) == x.d > 0

\* sg * (n/d) * sqrt(r) in lowest terms, r squarefree
MkNum(sg, n, d, r) ==
  IF sg = 0 \/ n = 0 THEN Zero
  ELSE LET g == GCD(n, d)
       IN  [sg |-> sg, n |-> n \div g, d |-> d \div g, r |-> r]

Rat(p, q) == MkNum(IF p < 0 THEN -1 ELSE IF p = 0 THEN 0 ELSE 1,
                   IF p < 0 THEN -p ELSE p, q, 1)
One == Rat(1, 1)

RECURSIVE SquarePartFrom(_, _, _)
SquarePartFrom(m, k, best) ==
  IF k * k > m THEN best
  ELSE SquarePartFrom(m, k + 1, IF m % (k * k) = 0 THEN k ELSE best)

\* the largest k with k*k dividing m (m >= 1)
SquarePart(m) == SquarePartFrom(m, 1, 1)

(***************************************************************************)
(* IEEE 754 binary64 values.  A finite non-zero double is the record        *)
(* Dbl(sg, m, e) of value sg * m * 2^e, 2^52 <= m < 2^53; m is a natural    *)
(* number held as a sequence of limbs, least significant first.  Zero, the  *)
(* infinities and NaN are the records above.  Every operation rounds to     *)
(* nearest, ties to even.                                                   *)
(***************************************************************************)
LimbBase == 2^15

RECURSIVE BigTrim(_)
\* a without its leading zero limbs
BigTrim(a) ==
  IF a = <<>> THEN a
  ELSE IF a[Len(a)] = 0 THEN BigTrim(SubSeq(a, 1, Len(a) - 1))
  ELSE a

BigLimb(a, i) == IF i <= Len(a) THEN a[i] ELSE 0

RECURSIVE BigFromInt(_)
BigFromInt(k) == IF k = 0 THEN <<>> ELSE <<k % LimbBase>> \o BigFromInt(k \div LimbBase)

\* the limbs i and i + 1 of a as one digit of 30 bits
BigDigit(a, i) == BigLimb(a, i) + LimbBase * BigLimb(a, i + 1)

\* the four limbs of the digits v1 and v2, taken modulo 2^30
DigitLimbs(v1, v2) ==
  <<v1 % LimbBase, (v1 \div LimbBase) % LimbBase,
    v2 % LimbBase, (v2 \div LimbBase) % LimbBase>>

RECURSIVE BigAddFrom(_, _, _, _)
\* the limbs of a + b from limb i + 4 on, after the four limbs at i: v1 is
\* the sum of the first two with the carry in, s2 the sum of the other two
BigAddNext(a, b, i, v1, s2) ==
  DigitLimbs(v1, s2 + v1 \div 2^30)
    \o BigAddFrom(a, b, i + 4, (s2 + v1 \div 2^30) \div 2^30)

\* the limbs of a + b from limb i on, four limbs a step
BigAddFrom(a, b, i, carry) ==
  IF i > Len(a) /\ i > Len(b) THEN <<carry>>
  ELSE BigAddNext(a, b, i, BigDigit(a, i) + BigDigit(b, i) + carry,
                  BigDigit(a, i + 2) + BigDigit(b, i + 2))

\* a + b
BigAdd(a, b) ==
  IF a = <<>> THEN b ELSE IF b = <<>> THEN a ELSE BigTrim(BigAddFrom(a, b, 1, 0))

RECURSIVE BigSubFrom(_, _, _, _)
\* the limbs of a - b from limb i + 4 on, after the four limbs at i: v1 is
\* the difference of the first two less the borrow in, s2 the difference of
\* the other two
BigSubNext(a, b, i, v1, s2) ==
  DigitLimbs((v1 + 2^30) % 2^30, (s2 - (IF v1 < 0 THEN 1 ELSE 0) + 2^30) % 2^30)
    \o BigSubFrom(a, b, i + 4, IF s2 - (IF v1 < 0 THEN 1 ELSE 0) < 0 THEN 1 ELSE 0)

\* the limbs of a - b from limb i on, four limbs a step
BigSubFrom(a, b, i, borrow) ==
  IF i > Len(a) THEN <<>>
  ELSE BigSubNext(a, b, i, BigDigit(a, i) - BigDigit(b, i) - borrow,
                  BigDigit(a, i + 2) - BigDigit(b, i + 2))

\* a - b, for a >= b
BigSub(a, b) == IF b = <<>> THEN a ELSE BigTrim(BigSubFrom(a, b, 1, 0))

\* the largest element of the non-empty set S of numbers
Top(S) == CHOOSE i \in S : \A j \in S : j <= i

\* the sign of a - b for operands of one length that differ in the limbs D
BigCmpAt(a, b, D) == IF D = {} THEN 0 ELSE IF a[Top(D)] > b[Top(D)] THEN 1 ELSE -1

\* the sign of a - b
BigCmp(a, b) ==
  IF Len(a) > Len(b) THEN 1
  ELSE IF Len(a) < Len(b) THEN -1
  ELSE BigCmpAt(a, b, {i \in DOMAIN a : a[i] # b[i]})

\* a * k for one limb k: the low halves of the limb products plus the high
\* halves one limb up
BigMulLimb(a, k) ==
  IF a = <<>> \/ k = 0 THEN <<>>
  ELSE BigTrim(BigAddFrom([i \in 1..Len(a) |-> (a[i] * k) % LimbBase] \o <<>>,
                          <<0>> \o [i \in 1..Len(a) |-> (a[i] * k) \div LimbBase],
                          1, 0))

\* a * LimbBase^w
BigShiftLimbs(a, w) == IF a = <<>> THEN a ELSE [i \in 1..w |-> 0] \o a

RECURSIVE BigMulRange(_, _, _, _)
\* a times the limbs lo..hi of b at their places: the two halves of the
\* range summed
BigMulRange(a, b, lo, hi) ==
  IF lo = hi THEN BigShiftLimbs(BigMulLimb(a, b[lo]), lo - 1)
  ELSE BigAdd(BigMulRange(a, b, lo, (lo + hi) \div 2),
              BigMulRange(a, b, ((lo + hi) \div 2) + 1, hi))

\* a * b
BigMul(a, b) == IF b = <<>> THEN <<>> ELSE BigMulRange(a, b, 1, Len(b))

\* a * 2^k
BigShl(a, k) == BigShiftLimbs(BigMulLimb(a, 2^(k % 15)), k \div 15)

\* floor(d / 2^s) for s < 15
BigShrBits(d, s) ==
  BigTrim([i \in 1..Len(d) |-> (d[i] \div 2^s) + (BigLimb(d, i + 1) % 2^s) * 2^(15 - s)])

\* floor(a / 2^k)
BigShr(a, k) ==
  BigShrBits(IF k \div 15 >= Len(a) THEN <<>> ELSE SubSeq(a, (k \div 15) + 1, Len(a)), k % 15)

\* 2^k
BigPow2(k) == BigShl(<<1>>, k)

\* the number of bits of the natural k < 2^31
BitLen(k) == IF k = 0 THEN 0 ELSE CHOOSE b \in 1..31 : k \div 2^(b - 1) = 1

\* the number of bits of a
BigBitLen(a) == IF a = <<>> THEN 0 ELSE 15 * (Len(a) - 1) + BitLen(a[Len(a)])

BigIsOdd(a) == a # <<>> /\ a[1] % 2 = 1

RECURSIVE BigFix(_, _, _)
\* <<quotient digit, remainder>> once the digit est, never too large, is
\* raised until the remainder is below dj
BigFix(rem, dj, est) ==
  IF BigCmp(rem, dj) >= 0 THEN BigFix(BigSub(rem, dj), dj, est + 1) ELSE <<est, rem>>

RECURSIVE BigDivFrom(_, _, _, _)
\* the division carried on below quotient digit j, which step holds with the
\* remainder it leaves
BigDivNext(d, j, quot, step) == BigDivFrom(step[2], d, j - 1, <<step[1]>> \o quot)

\* quotient digit j of rem / d: est is the digit estimated from the leading
\* limbs and dj is d * LimbBase^j
BigDivDigit(rem, d, j, quot, dj, est) ==
  BigDivNext(d, j, quot, BigFix(BigSub(rem, BigMulLimb(dj, est)), dj, est))

\* long division: <<floor(rem / d), rem mod d>> for rem < d * LimbBase^(j + 1),
\* the quotient digits above j being quot; the top limb of d has 15 bits, so
\* that the digit estimated from the leading limbs is short by little
BigDivFrom(rem, d, j, quot) ==
  IF j < 0 THEN <<BigTrim(quot), rem>>
  ELSE IF rem = <<>> THEN <<BigTrim([i \in 1..(j + 1) |-> 0] \o quot), rem>>
  ELSE BigDivDigit(rem, d, j, quot, BigShiftLimbs(d, j),
                   (BigLimb(rem, Len(d) + j + 1) * LimbBase + BigLimb(rem, Len(d) + j))
                     \div (d[Len(d)] + 1))

\* <<floor(a / d), a mod d>> for the top limb of d of 15 bits
BigDivNormalized(a, d) == BigDivFrom(a, d, Len(a) - Len(d), <<>>)

\* the quotient and remainder of operands that were scaled by 2^s
BigDivScaled(qr, s) == <<qr[1], BigShr(qr[2], s)>>

\* <<floor(a / d), a mod d>> for d > 0 and operands scaled by 2^s
BigDivShifted(a, d, s) == BigDivScaled(BigDivNormalized(BigShl(a, s), BigShl(d, s)), s)

\* <<floor(a / d), a mod d>> for d > 0
BigDivMod(a, d) ==
  IF BigCmp(a, d) < 0 THEN <<<<>>, a>> ELSE BigDivShifted(a, d, 15 - BitLen(d[Len(d)]))

RECURSIVE BigSqrtFrom(_, _)
\* Newton's iteration from x, q being floor(a / x): the next estimate is
\* their mean, and x is the root once the mean is no smaller
BigSqrtNext(a, x, q) ==
  IF BigCmp(q, x) >= 0 THEN x ELSE BigSqrtFrom(a, BigShr(BigAdd(x, q), 1))

\* Newton's iteration for floor(sqrt(a)) from an estimate x >= sqrt(a)
BigSqrtFrom(a, x) == BigSqrtNext(a, x, BigDivMod(a, x)[1])

RECURSIVE IntSqrtFrom(_, _)
\* Newton's iteration for floor(sqrt(t)) from an estimate x >= sqrt(t)
IntSqrtFrom(t, x) ==
  IF (x + t \div x) \div 2 >= x THEN x ELSE IntSqrtFrom(t, (x + t \div x) \div 2)

\* an estimate of sqrt(a), never below it, for a of len >= 2 limbs: from the
\* root of the two leading limbs, times 182 > sqrt(LimbBase) when the limbs
\* below them are odd in number
BigSqrtSeed(a, len, r) ==
  IF len % 2 = 0 THEN BigShiftLimbs(BigFromInt(r + 1), (len - 2) \div 2)
  ELSE BigShiftLimbs(BigFromInt((r + 1) * 182), (len - 3) \div 2)

\* floor(sqrt(a)) for a > 0
BigSqrt(a) ==
  IF Len(a) < 2 THEN BigFromInt(IntSqrtFrom(a[1], LimbBase))
  ELSE BigSqrtFrom(a, BigSqrtSeed(a, Len(a),
                                  IntSqrtFrom(a[Len(a)] * LimbBase + a[Len(a) - 1], LimbBase)))

\* the 53-bit significand r at exponent e, or the 54-bit one a carry left
RoundCarry(sg, r, e) ==
  IF BigBitLen(r) > 53 THEN Dbl(sg, BigShr(r, 1), e + 1) ELSE Dbl(sg, r, e)

\* q rounded up when the bits cut off, compared with half a unit as c says,
\* ask for it: nearest, ties to even
RoundUp(sg, q, c, e) ==
  RoundCarry(sg, IF c > 0 \/ (c = 0 /\ BigIsOdd(q)) THEN BigAdd(q, <<1>>) ELSE q, e)

\* a of more than 53 bits cut to its leading 53 bits q
RoundCut(sg, a, e, shift, q) ==
  RoundUp(sg, q, BigCmp(BigSub(a, BigShl(q, shift)), BigPow2(shift - 1)), e + shift)

\* the double nearest to sg * a * 2^e for a of len bits
RoundBits(sg, a, e, len) ==
  IF len <= 53 THEN Dbl(sg, BigShl(a, 53 - len), e - (53 - len))
  ELSE RoundCut(sg, a, e, len - 53, BigShr(a, len - 53))

\* the double nearest to sg * a * 2^e, ties to even
RoundToDouble(sg, a, e) == IF a = <<>> THEN Zero ELSE RoundBits(sg, a, e, BigBitLen(a))

\* x * y for doubles
DblMul(x, y) == RoundToDouble(x.sg * y.sg, BigMul(x.m, y.m), x.e + y.e)

\* sa * a * 2^e + sb * b * 2^e, c being the sign of a - b
DblAddAligned(sa, a, sb, b, e, c) ==
  RoundToDouble(IF sa = sb \/ c >= 0 THEN sa ELSE sb,
                IF sa = sb THEN BigAdd(a, b)
                ELSE IF c >= 0 THEN BigSub(a, b) ELSE BigSub(b, a),
                e)

\* x + y for doubles whose significands a and b are aligned at exponent e
DblAddAt(x, y, a, b, e) == DblAddAligned(x.sg, a, y.sg, b, e, BigCmp(a, b))

\* x + y for doubles
DblAdd(x, y) ==
  IF x.e - y.e > 128 \/ y.e - x.e > 128 THEN Unrep
  ELSE IF x.e < y.e THEN DblAddAt(x, y, x.m, BigShl(y.m, y.e - x.e), x.e)
  ELSE DblAddAt(x, y, BigShl(x.m, x.e - y.e), y.m, y.e)

\* the quotient qr[1] with a sticky bit for the remainder qr[2], rounded
DblDivRound(sg, qr, e) ==
  IF qr[2] = <<>> THEN RoundToDouble(sg, BigShl(qr[1], 1), e)
  ELSE RoundToDouble(sg, BigAdd(BigShl(qr[1], 1), <<1>>), e)

\* x / y for doubles: the quotient to 58 bits and a sticky bit, then rounded
DblDiv(x, y) == DblDivRound(x.sg * y.sg, BigDivMod(BigShl(x.m, 57), y.m), x.e - y.e - 58)

\* the root of a with a sticky bit for what the root leaves, rounded
DblSqrtRound(a, root, e) ==
  IF root = <<>> THEN Zero
  ELSE RoundToDouble(1, BigAdd(BigShl(root, 1), IF BigMul(root, root) = a THEN <<>> ELSE <<1>>), e)

\* sqrt(a * 2^(2 * (e + 1)))
DblSqrtOf(a, e) == DblSqrtRound(a, BigSqrt(a), e)

\* the shift that makes the exponent of a double of exponent e even
SqrtShift(e) == IF (e - 58) % 2 = 0 THEN 58 ELSE 59

\* Math.sqrt(x) for a double x > 0: the root to 56 bits and a sticky bit
DblSqrt(x) == DblSqrtOf(BigShl(x.m, SqrtShift(x.e)), ((x.e - SqrtShift(x.e)) \div 2) - 1)

\* the sign of |x| - |y| for doubles
DblCmpMagnitude(x, y) ==
  IF x.e > y.e THEN 1 ELSE IF x.e < y.e THEN -1 ELSE BigCmp(x.m, y.m)

\* x < y for doubles of one sign
DblLt(x, y) ==
  IF x.sg > 0 THEN DblCmpMagnitude(x, y) < 0 ELSE DblCmpMagnitude(x, y) > 0

\* the double a finite value of the model denotes when it is one exactly: a
\* rational whose denominator is a power of two
ToDbl(x) ==
  IF IsDbl(x) \/ x.d = 0 \/ x.sg = 0 THEN x
  ELSE IF x.r # 1 \/ 2^(BitLen(x.d) - 1) # x.d THEN Unrep
  ELSE Dbl(x.sg, BigShl(BigFromInt(x.n), 53 - BitLen(x.n)), BitLen(x.n) - 53 - (BitLen(x.d) - 1))

\* x * y
NumMul(x, y) ==
  IF IsFinite(x) /\ IsFinite(y) /\ x.sg # 0 /\ y.sg # 0 /\ (IsDbl(x) \/ IsDbl(y))
  THEN DblMul(ToDbl(x), ToDbl(y))
  ELSE IF x = Unrep \/ y = Unrep THEN Unrep
  ELSE IF IsNaN(x) \/ IsNaN(y) THEN NaN
  ELSE IF IsInf(x) \/ IsInf(y)
       THEN IF x.sg * y.sg = 0 THEN NaN
            ELSE IF x.sg * y.sg > 0 THEN PosInf ELSE NegInf
  ELSE IF x.sg = 0 \/ y.sg = 0 THEN Zero
  ELSE LET g == GCD(x.r, y.r)
       IN  MkNum(x.sg * y.sg, x.n * y.n * g, x.d * y.d, (x.r \div g) * (y.r \div g))

NumNeg(x) == IF IsFinite(x) \/ IsInf(x) THEN [x EXCEPT !.sg = -x.sg] ELSE x

\* x + y
NumAdd(x, y) ==
  IF IsFinite(x) /\ IsFinite(y) /\ x.sg # 0 /\ y.sg # 0 /\ (IsDbl(x) \/ IsDbl(y))
  THEN DblAdd(ToDbl(x), ToDbl(y))
  ELSE IF x = Unrep \/ y = Unrep THEN Unrep
  ELSE IF IsNaN(x) \/ IsNaN(y) THEN NaN
  ELSE IF IsInf(x) /\ IsInf(y) THEN (IF x = y THEN x ELSE NaN)
  ELSE IF IsInf(x) THEN x
  ELSE IF IsInf(y) THEN y
  ELSE IF x.sg = 0 THEN y
  ELSE IF y.sg = 0 THEN x
  ELSE IF x.r # y.r THEN Unrep
  ELSE LET p == x.sg * x.n * y.d + y.sg * y.n * x.d
       IN  MkNum(IF p < 0 THEN -1 ELSE IF p = 0 THEN 0 ELSE 1,
                 IF p < 0 THEN -p ELSE p, x.d * y.d, x.r)

NumSub(x, y) == NumAdd(x, NumNeg(y))

\* 1 / x
NumInv(x) ==
  IF IsDbl(x) THEN DblDiv(ToDbl(One), x)
  ELSE IF x = Unrep THEN Unrep
  ELSE IF IsNaN(x) THEN NaN
  ELSE IF IsInf(x) THEN Zero
  ELSE IF x.sg = 0 THEN PosInf
  ELSE MkNum(x.sg, x.d, x.n * x.r, x.r)

\* Math.sqrt(x)
NumSqrt(x) ==
  IF IsDbl(x) /\ x.sg > 0 THEN DblSqrt(x)
  ELSE IF x = Unrep THEN Unrep
  ELSE IF IsNaN(x) \/ x.sg < 0 THEN NaN
  ELSE IF IsInf(x) THEN PosInf
  ELSE IF x.sg = 0 THEN Zero
  ELSE IF x.r # 1 THEN Unrep
  ELSE LET m == x.n * x.d
           k == SquarePart(m)
       IN  MkNum(1, k, x.d, m \div (k * k))

\* x ** 2
NumSq(x) == NumMul(x, x)

\* Math.abs(x)
NumAbs(x) == IF (IsFinite(x) \/ IsInf(x)) /\ x.sg < 0 THEN NumNeg(x) ELSE x

\* x < y; every comparison with NaN is false
NumLt(x, y) ==
  IF ~(IsFinite(x) \/ IsInf(x)) \/ ~(IsFinite(y) \/ IsInf(y)) THEN FALSE
  ELSE IF IsInf(x) \/ IsInf(y)
       THEN (x = NegInf /\ y # NegInf) \/ (y = PosInf /\ x # PosInf)
  ELSE IF x.sg # y.sg THEN x.sg < y.sg
  ELSE IF x.sg = 0 THEN FALSE
  ELSE IF IsDbl(x) \/ IsDbl(y)
       THEN DblLt(ToDbl(x), ToDbl(y))
  ELSE LET a == x.n * x.n * x.r * y.d * y.d
           b == y.n * y.n * y.r * x.d * x.d
       IN  IF x.sg > 0 THEN a < b ELSE b < a

\* x > y
NumGt(x, y) == NumLt(y, x)

\* the double 1e-10
Tolerance == NumInv(NumMul(ToDbl(Rat(100000, 1)), ToDbl(Rat(100000, 1))))

\* x > 1e-10; false for NaN.  For x a rational (a difference of squared
\* norms) n/d > 10^-10 iff n > floor(d / 10^10).
GtTolerance(x) ==
  IF IsInf(x) THEN x = PosInf
  ELSE IF ~IsFinite(x) THEN FALSE
  ELSE IF IsDbl(x) THEN NumGt(x, Tolerance)
  ELSE x.sg > 0 /\ x.n > (x.d \div 100000) \div 100000

(***************************************************************************)
(* Complex arithmetic (utils/complex-utils)                                *)
(***************************************************************************)
complex(real, imag) == [real |-> real, imag |-> imag]

ZERO == complex(Zero, Zero)
ONE == complex(One, Zero)
I == complex(Zero, One)

add(a, b) == complex(NumAdd(a.real, b.real), NumAdd(a.imag, b.imag))

multiply(a, b) ==
  complex(NumSub(NumMul(a.real, b.real), NumMul(a.imag, b.imag)),
          NumAdd(NumMul(a.real, b.imag), NumMul(a.imag, b.real)))

\* scale takes a number: both components are multiplied by it
scale(a, scalar) == complex(NumMul(a.real, scalar), NumMul(a.imag, scalar))

\* What the operator * makes of an operand that is a Complex object and not a
\* number: the object converts to NaN.  This is the value scale multiplies by
\* at the call sites that hand it a matrix entry.
ToNumber(c) == NaN

magnitude(a) == NumSqrt(NumAdd(NumMul(a.real, a.real), NumMul(a.imag, a.imag)))

\* magnitude(a) ** 2
Prob(a) == NumSq(magnitude(a))

(***************************************************************************)
(* Gate algebra (quantum/quantum-gates.ts): name, numQubits and matrix.    *)
(* matrix[r][c] of the source is Entry(g, r, c).                           *)
(***************************************************************************)
\* 1 / Math.sqrt(2)
InvSqrt2 == NumInv(NumSqrt(Rat(2, 1)))

H == [name |-> "H", numQubits |-> 1,
      matrix |-> << <<scale(ONE, InvSqrt2), scale(ONE, InvSqrt2)>>,
                    <<scale(ONE, InvSqrt2), scale(ONE, NumNeg(InvSqrt2))>> >>]

X == [name |-> "X", numQubits |-> 1,
      matrix |-> << <<ZERO, ONE>>,
                    <<ONE, ZERO>> >>]

Y == [name |-> "Y", numQubits |-> 1,
      matrix |-> << <<ZERO, scale(I, Rat(-1, 1))>>,
                    <<I, ZERO>> >>]

Z == [name |-> "Z", numQubits |-> 1,
      matrix |-> << <<ONE, ZERO>>,
                    <<ZERO, scale(ONE, Rat(-1, 1))>> >>]

S == [name |-> "S", numQubits |-> 1,
      matrix |-> << <<ONE, ZERO>>,
                    <<ZERO, I>> >>]

\* Math.cos(Math.PI / 4) = Math.sin(Math.PI / 4) = 1 / sqrt(2)
T == [name |-> "T", numQubits |-> 1,
      matrix |-> << <<ONE, ZERO>>,
                    <<ZERO, complex(InvSqrt2, InvSqrt2)>> >>]

\* The rotation gates at theta = PI / 2: cos = sin = 1 / sqrt(2)
RX == [name |-> "RX", numQubits |-> 1,
       matrix |-> << <<complex(InvSqrt2, Zero), complex(Zero, NumNeg(InvSqrt2))>>,
                     <<complex(Zero, NumNeg(InvSqrt2)), complex(InvSqrt2, Zero)>> >>]

RY == [name |-> "RY", numQubits |-> 1,
       matrix |-> << <<complex(InvSqrt2, Zero), complex(NumNeg(InvSqrt2), Zero)>>,
                     <<complex(InvSqrt2, Zero), complex(InvSqrt2, Zero)>> >>]

RZ == [name |-> "RZ", numQubits |-> 1,
       matrix |-> << <<complex(InvSqrt2, NumNeg(InvSqrt2)), ZERO>>,
                     <<ZERO, complex(InvSqrt2, InvSqrt2)>> >>]

CNOT == [name |-> "CNOT", numQubits |-> 2,
         matrix |-> << <<ONE, ZERO, ZERO, ZERO>>,
                       <<ZERO, ONE, ZERO, ZERO>>,
                       <<ZERO, ZERO, ZERO, ONE>>,
                       <<ZERO, ZERO, ONE, ZERO>> >>]

CZ == [name |-> "CZ", numQubits |-> 2,
       matrix |-> << <<ONE, ZERO, ZERO, ZERO>>,
                     <<ZERO, ONE, ZERO, ZERO>>,
                     <<ZERO, ZERO, ONE, ZERO>>,
                     <<ZERO, ZERO, ZERO, scale(ONE, Rat(-1, 1))>> >>]

SWAP == [name |-> "SWAP", numQubits |-> 2,
         matrix |-> << <<ONE, ZERO, ZERO, ZERO>>,
                       <<ZERO, ZERO, ONE, ZERO>>,
                       <<ZERO, ONE, ZERO, ZERO>>,
                       <<ZERO, ZERO, ZERO, ONE>> >>]

SingleQubitGates == {H, X, Y, Z, S, T, RX, RY, RZ}
TwoQubitGates == {CNOT, CZ, SWAP}
Gates == SingleQubitGates \cup TwoQubitGates

\* gate.matrix[r][c], rows and columns counted from 0
Entry(g, r, c) == g.matrix[r + 1][c + 1]

(***************************************************************************)
(* Bit arithmetic on basis indices                                         *)
(***************************************************************************)
RECURSIVE Pow2(_)
\* 1 << k
Pow2(k) == IF k = 0 THEN 1 ELSE 2 * Pow2(k - 1)

\* (i >> k) & 1
Bit(i, k) == (i \div Pow2(k)) % 2

\* i ^ (1 << k)
Flip(i, k) == IF Bit(i, k) = 0 THEN i + Pow2(k) ELSE i - Pow2(k)

\* Array(dimension).fill(ZERO)
ZeroVector(dim) == [i \in 0..(dim - 1) |-> ZERO]

\* Array(dimension).fill(ZERO) with ONE stored at index k
BasisVector(dim, k) == [i \in 0..(dim - 1) |-> IF i = k THEN ONE ELSE ZERO]

(***************************************************************************)
(* State                                                                   *)
(***************************************************************************)
VARIABLES
  svPhase,      \* "unborn" before the constructor ran, "live" once it returned,
                \* "failed" when it threw
  svNumQubits,  \* StateVector._numQubits
  svVector,     \* StateVector._stateVector, indexed from 0
  svLast,       \* the last StateVector call: op, arg, status, result
  svPrev,       \* the call before it, kept when it was a measure that returned
  svTracing,    \* whether svTrace is kept (fixed by the initial state)
  svTrace,      \* base: the basis state the register last held by construction,
                \* reset or setState (-1: not known); calls: the successful
                \* calls made since, at most TraceLen of them
  svOther,      \* the _stateVector of the other StateVector of the pair
                \* clone() made, empty before any clone
  qubits,       \* QuantumCircuit._qubits: a sequence of [alpha, beta]
  operations,   \* QuantumCircuit._operations: a sequence of [gate, qubits]
  qcLast,       \* the last QuantumCircuit call: op, status, result
  qcOther       \* the _qubits and _operations of the other QuantumCircuit of
                \* the pair clone() made, empty before any clone

svVars == <<svPhase, svNumQubits, svVector, svLast, svPrev, svTracing, svTrace,
            svOther>>
qcVars == <<qubits, operations, qcLast, qcOther>>
vars == <<svPhase, svNumQubits, svVector, svLast, svPrev, svTracing, svTrace,
          svOther, qubits, operations, qcLast, qcOther>>

\* a call that returned result (a tuple, empty for a call that returns nothing)
Returned(op, arg, result) ==
  [op |-> op, arg |-> arg, status |-> "ok", result |-> result, why |-> ""]

\* a call that threw; why names the check that failed
Threw(op, why) ==
  [op |-> op, arg |-> <<>>, status |-> "error", result |-> <<>>, why |-> why]

NoCall == Returned("none", <<>>, <<>>)

NoTrace == [base |-> -1, calls |-> <<>>]

\* no clone was made
NoVector == <<>>

NoCircuit == [qubits |-> <<>>, operations |-> <<>>]

\* the history after the register was put in basis state k
TraceFrom(k) == IF svTracing THEN [base |-> k, calls |-> <<>>] ELSE NoTrace

\* the history after one more successful call
TraceAfter(call) ==
  IF ~svTracing \/ svTrace.base = -1 \/ Len(svTrace.calls) >= TraceLen
  THEN NoTrace
  ELSE [svTrace EXCEPT !.calls = Append(@, call)]

\* svPrev after one more call
PrevAfter == IF svLast.op = "measure" /\ svLast.status = "ok" THEN svLast ELSE NoCall

\* the values Math.random() is drawn from, all in [0, 1)
Randoms == {Rat(k, RandomDen) : k \in 0..(RandomDen - 1)}

(***************************************************************************)
(* StateVector (quantum/state-vector.ts)                                   *)
(***************************************************************************)
\* get dimension(): 1 << this._numQubits
Dimension == Pow2(svNumQubits)

\* vec.length
Length(vec) == Cardinality(DOMAIN vec)

RECURSIVE SumProb(_, _)
\* the running sum  norm += magnitude(vec[i]) ** 2  over the first k entries
SumProb(vec, k) ==
  IF k = 0 THEN Zero ELSE NumAdd(SumProb(vec, k - 1), Prob(vec[k - 1]))

RECURSIVE SumProbWhere(_, _, _, _)
\* the same sum over the entries i < k whose bit q equals b
SumProbWhere(vec, k, q, b) ==
  IF k = 0 THEN Zero
  ELSE IF Bit(k - 1, q) = b
       THEN NumAdd(SumProbWhere(vec, k - 1, q, b), Prob(vec[k - 1]))
       ELSE SumProbWhere(vec, k - 1, q, b)

\* the capacity check off by one
NewThrows_Early(n) == n >= 15

\* whether the constructor throws
NewThrows(n) == n > 15

\* constructor(numQubits)
New(n) ==
  /\ svPhase = "unborn"
  /\ svPrev' = PrevAfter
  /\ IF NewThrows(n)
     THEN /\ svPhase' = "failed"
          /\ svLast' = Threw("new", "capacity")
          /\ UNCHANGED <<svNumQubits, svVector, svTrace>>
     ELSE /\ svPhase' = "live"
          /\ svNumQubits' = n
          /\ svVector' = BasisVector(Pow2(n), 0)
          /\ svLast' = Returned("new", <<n>>, <<>>)
          /\ svTrace' = TraceFrom(0)
  /\ UNCHANGED <<svTracing, svOther, qcVars>>

\* the calls below are explored on registers of at most MaxQubits qubits
Live == svPhase = "live" /\ svNumQubits <= MaxQubits

\* reset()
Reset ==
  /\ Live
  /\ svVector' = BasisVector(Dimension, 0)
  /\ svLast' = Returned("reset", <<>>, <<>>)
  /\ svPrev' = PrevAfter
  /\ svTrace' = TraceFrom(0)
  /\ UNCHANGED <<svPhase, svNumQubits, svTracing, svOther, qcVars>>

\* Math.abs(norm - 1) > 1e-10
NotNormalized(norm) == GtTolerance(NumAbs(NumSub(norm, One)))

\* the check of setState that fails on v, "" when none does
SetStateError(v) ==
  IF Length(v) # Dimension THEN "length"
  ELSE IF NotNormalized(SumProb(v, Length(v))) THEN "normalized"
  ELSE ""

\* setState(stateVector)
SetState(v) ==
  /\ Live
  /\ svPrev' = PrevAfter
  /\ IF SetStateError(v) # ""
     THEN /\ svLast' = Threw("setState", SetStateError(v))
          /\ UNCHANGED <<svVector, svTrace>>
     ELSE /\ svLast' = Returned("setState", <<>>, <<>>)
          /\ svVector' = v
          /\ svTrace' = IF \E k \in DOMAIN v : v = BasisVector(Dimension, k)
                        THEN TraceFrom(CHOOSE k \in DOMAIN v : v = BasisVector(Dimension, k))
                        ELSE NoTrace
  /\ UNCHANGED <<svPhase, svNumQubits, svTracing, svOther, qcVars>>

RECURSIVE SingleQubitLoop(_, _, _, _, _)
\* the loop of applySingleQubitGate from index i on, newStateVector being acc
SingleQubitLoop(old, gate, q, i, acc) ==
  IF i = Length(old) THEN acc
  ELSE LET f == Flip(i, q)
           a == IF Bit(i, q) = 0
                THEN [acc EXCEPT ![i] = add(acc[i], scale(old[i], ToNumber(Entry(gate, 0, 0))))]
                ELSE [acc EXCEPT ![f] = add(acc[f], scale(old[i], ToNumber(Entry(gate, 0, 1))))]
           b == IF Bit(i, q) = 0
                THEN [a EXCEPT ![f] = add(a[f], scale(old[i], ToNumber(Entry(gate, 1, 0))))]
                ELSE [a EXCEPT ![i] = add(a[i], scale(old[i], ToNumber(Entry(gate, 1, 1))))]
       IN  SingleQubitLoop(old, gate, q, i + 1, b)

\* the check of applySingleQubitGate that fails, "" when none does
SingleQubitError(gate, q) ==
  IF gate.numQubits # 1 THEN "arity"
  ELSE IF q < 0 \/ q >= svNumQubits THEN "index"
  ELSE ""

\* applySingleQubitGate(gate, qubitIndex)
ApplySingleQubitGate(gate, q) ==
  /\ Live
  /\ svPrev' = PrevAfter
  /\ IF SingleQubitError(gate, q) # ""
     THEN /\ svLast' = Threw("applySingleQubitGate", SingleQubitError(gate, q))
          /\ UNCHANGED <<svVector, svTrace>>
     ELSE /\ svLast' = Returned("applySingleQubitGate", <<gate.name, q>>, <<>>)
          /\ svVector' = SingleQubitLoop(svVector, gate, q, 0, ZeroVector(Dimension))
          /\ svTrace' = TraceAfter(Returned("applySingleQubitGate", <<gate.name, q>>, <<>>))
  /\ UNCHANGED <<svPhase, svNumQubits, svTracing, svOther, qcVars>>

\* (i & ~((1 << control) | (1 << target))) | (newControlBit << control) | (newTargetBit << target)
NewState(i, control, target, newControlBit, newTargetBit) ==
  i - Bit(i, control) * Pow2(control) - Bit(i, target) * Pow2(target)
    + newControlBit * Pow2(control) + newTargetBit * Pow2(target)

RECURSIVE TwoQubitLoop(_, _, _, _, _, _, _)
\* the nested loops of applyTwoQubitGate from (i, j) on, newStateVector being acc
TwoQubitLoop(old, gate, control, target, i, j, acc) ==
  IF i = Length(old) THEN acc
  ELSE IF j = 4 THEN TwoQubitLoop(old, gate, control, target, i + 1, 0, acc)
  ELSE LET stateIndex == Bit(i, control) * 2 + Bit(i, target)
           ns == NewState(i, control, target, (j \div 2) % 2, j % 2)
           a == [acc EXCEPT ![ns] =
                   add(acc[ns], scale(old[i], ToNumber(Entry(gate, stateIndex, j))))]
       IN  TwoQubitLoop(old, gate, control, target, i, j + 1, a)

\* the checks of applyTwoQubitGate without the q1 === q2 one
TwoQubitError_NoSameCheck(gate, q1, q2) ==
  IF gate.numQubits # 2 THEN "arity"
  ELSE IF q1 < 0 \/ q1 >= svNumQubits \/ q2 < 0 \/ q2 >= svNumQubits THEN "index"
  ELSE ""

\* the check of applyTwoQubitGate that fails, "" when none does
TwoQubitError(gate, q1, q2) ==
  IF gate.numQubits # 2 THEN "arity"
  ELSE IF q1 < 0 \/ q1 >= svNumQubits \/ q2 < 0 \/ q2 >= svNumQubits THEN "index"
  ELSE IF q1 = q2 THEN "same"
  ELSE ""

\* the first index taken as the control whatever the order
ControlBit_First(q1, q2) == q1

\* const control = Math.min(q1, q2)
ControlBit(q1, q2) == IF q1 < q2 THEN q1 ELSE q2

\* const target = Math.max(q1, q2)
TargetBit(q1, q2) == IF q1 < q2 THEN q2 ELSE q1

\* the array applyTwoQubitGate(gate, [q1, q2]) leaves when the register held vec
TwoQubitResult(vec, gate, q1, q2) ==
  TwoQubitLoop(vec, gate, ControlBit(q1, q2), TargetBit(q1, q2), 0, 0,
               ZeroVector(Length(vec)))

\* applyTwoQubitGate(gate, [q1, q2])
ApplyTwoQubitGate(gate, q1, q2) ==
  /\ Live
  /\ svPrev' = PrevAfter
  /\ IF TwoQubitError(gate, q1, q2) # ""
     THEN /\ svLast' = Threw("applyTwoQubitGate", TwoQubitError(gate, q1, q2))
          /\ UNCHANGED <<svVector, svTrace>>
     ELSE /\ svLast' = Returned("applyTwoQubitGate", <<gate.name, q1, q2>>, <<>>)
          /\ svVector' = TwoQubitResult(svVector, gate, q1, q2)
          /\ svTrace' = TraceAfter(Returned("applyTwoQubitGate", <<gate.name, q1, q2>>, <<>>))
  /\ UNCHANGED <<svPhase, svNumQubits, svTracing, svOther, qcVars>>

\* the outcome measure(qubitIndex) returns when Math.random() gives rnd
MeasureResult(vec, q, rnd) ==
  IF NumLt(rnd, SumProbWhere(vec, Length(vec), q, 1)) THEN 1 ELSE 0

\* the collapsed vector left as it is, without the division by the norm
Collapse_Unscaled(vec, q, result) ==
  [i \in DOMAIN vec |-> IF Bit(i, q) = result THEN vec[i] ELSE ZERO]

\* the collapsed and renormalized vector measure leaves for outcome result
Collapse(vec, q, result) ==
  LET normalizationFactor == NumSqrt(SumProbWhere(vec, Length(vec), q, result))
      kept == [i \in DOMAIN vec |-> IF Bit(i, q) = result THEN vec[i] ELSE ZERO]
  IN  [i \in DOMAIN vec |-> scale(kept[i], NumInv(normalizationFactor))]

\* measure(qubitIndex)
Measure(q, rnd) ==
  /\ Live
  /\ svPrev' = PrevAfter
  /\ IF q < 0 \/ q >= svNumQubits
     THEN /\ svLast' = Threw("measure", "index")
          /\ UNCHANGED <<svVector, svTrace>>
     ELSE LET result == MeasureResult(svVector, q, rnd)
          IN  /\ svLast' = Returned("measure", <<q>>, <<result>>)
              /\ svVector' = Collapse(svVector, q, result)
              /\ svTrace' = TraceAfter(Returned("measure", <<q>>, <<result>>))
  /\ UNCHANGED <<svPhase, svNumQubits, svTracing, svOther, qcVars>>

RECURSIVE Sample(_, _, _, _)
\* the cumulative scan of measureAll from index i on: the first index whose
\* cumulative probability exceeds rnd, and the initial outcome 0 when none does
Sample(vec, rnd, i, cumulativeProbability) ==
  IF i = Length(vec) THEN 0
  ELSE LET c == NumAdd(cumulativeProbability, Prob(vec[i]))
       IN  IF NumLt(rnd, c) THEN i ELSE Sample(vec, rnd, i + 1, c)

\* the bits of outcome, qubit n - 1 first
Bits_Reversed(outcome, n) == [k \in 1..n |-> Bit(outcome, n - k)]

\* the bits of outcome, qubit 0 first
Bits(outcome, n) == [k \in 1..n |-> Bit(outcome, k - 1)]

\* measureAll()
MeasureAll(rnd) ==
  /\ Live
  /\ svPrev' = PrevAfter
  /\ LET outcome == Sample(svVector, rnd, 0, Zero)
     IN  /\ svVector' = BasisVector(Dimension, outcome)
         /\ svLast' = Returned("measureAll", <<>>, Bits(outcome, svNumQubits))
         /\ svTrace' = TraceAfter(Returned("measureAll", <<>>, Bits(outcome, svNumQubits)))
  /\ UNCHANGED <<svPhase, svNumQubits, svTracing, svOther, qcVars>>

\* the array the constructor left in the new object, the copy left out
CloneVector_Fresh(vec) == BasisVector(Length(vec), 0)

\* [...this._stateVector]: a new array holding the same amplitudes
CloneVector(vec) == [i \in DOMAIN vec |-> vec[i]]

\* sv2 = sv.clone().  The calls that follow are made on the object keep names,
\* the original or the clone: svVector is its array and svOther the array of
\* the other object.  No method of the class writes into an array another
\* object holds: each assigns a new array to this._stateVector.
Clone(keep) ==
  /\ Live
  /\ IF keep = "original"
     THEN /\ svVector' = svVector
          /\ svOther' = CloneVector(svVector)
     ELSE /\ svVector' = CloneVector(svVector)
          /\ svOther' = svVector
  /\ svLast' = Returned("clone", <<keep>>, <<>>)
  /\ svPrev' = PrevAfter
  /\ svTrace' = NoTrace
  /\ UNCHANGED <<svPhase, svNumQubits, svTracing, qcVars>>

(***************************************************************************)
(* The StateVector under arbitrary callers                                 *)
(***************************************************************************)
\* the basis states of the register
BasisInputs == {BasisVector(Dimension, k) : k \in 0..(Dimension - 1)}

\* the vectors handed to setState: normalized ones (basis states, the uniform
\* superposition, 3/5|0..0> + 4i/5|1..1>, i|0..0>), vectors that are not
\* normalized, a vector of NaN as gate application produces it, and vectors of
\* the wrong length
SetStateInputs ==
  LET dim == Dimension
      u == NumInv(NumSqrt(Rat(dim, 1)))
  IN  BasisInputs
        \cup {[i \in 0..(dim - 1) |-> complex(u, Zero)],
              [i \in 0..(dim - 1) |-> IF i = 0 THEN complex(Rat(3, 5), Zero)
                                      ELSE IF i = dim - 1 THEN complex(Zero, Rat(4, 5))
                                      ELSE ZERO],
              [i \in 0..(dim - 1) |-> IF i = 0 THEN I ELSE ZERO],
              [i \in 0..(dim - 1) |-> ONE],
              [i \in 0..(dim - 1) |-> IF i = 0 THEN complex(Rat(1, 2), Zero) ELSE ZERO],
              ZeroVector(dim),
              [i \in 0..(dim - 1) |-> complex(NaN, NaN)],
              BasisVector(2 * dim, 0),
              ZeroVector(0)}

\* qubit indices handed to the calls, some of them out of range
QubitArgs == (-1)..MaxQubits

\* no circuit is under study
InitCircuit ==
  /\ qubits = <<>>
  /\ operations = <<>>
  /\ qcLast = NoCall
  /\ qcOther = NoCircuit

Init ==
  /\ svPhase = "unborn"
  /\ svNumQubits = 0
  /\ svVector = ZeroVector(0)
  /\ svLast = NoCall
  /\ svPrev = NoCall
  /\ svTracing = FALSE
  /\ svTrace = NoTrace
  /\ svOther = NoVector
  /\ InitCircuit

Next ==
  \/ \E n \in 0..MaxCtorArg : New(n)
  \/ Reset
  \/ Live /\ \E v \in SetStateInputs : SetState(v)
  \/ \E g \in Gates, q \in QubitArgs : ApplySingleQubitGate(g, q)
  \/ \E g \in Gates, q1 \in QubitArgs, q2 \in QubitArgs : ApplyTwoQubitGate(g, q1, q2)
  \/ \E q \in QubitArgs, rnd \in Randoms : Measure(q, rnd)
  \/ \E rnd \in Randoms : MeasureAll(rnd)

Spec == Init /\ [][Next]_vars

(***************************************************************************)
(* The StateVector in binary64 arithmetic: the caller hands setState        *)
(* amplitudes it computed with Math.sqrt, and Math.random() is drawn from   *)
(* both ends and the middle of [0, 1).                                      *)
(***************************************************************************)
\* the largest multiple of 2^-52 below 1
MaxRandom == NumSub(ToDbl(One), Dbl(1, BigPow2(52), -104))

DoubleRandoms == {Zero, ToDbl(Rat(1, 2)), MaxRandom}

\* Math.sqrt(k / AmplitudeDen) for every k
SqrtTable == [k \in 0..AmplitudeDen |-> NumSqrt(ToDbl(Rat(k, AmplitudeDen)))] @@ <<>>

\* 1 / Math.sqrt(dim) for every dimension
InvSqrtTable == [n \in 1..MaxQubits |-> NumInv(NumSqrt(ToDbl(Rat(Pow2(n), 1))))] @@ <<>>

\* the double 1 - 2^-40: its square is within 1e-10 of 1
AlmostOne == NumSub(ToDbl(One), Dbl(1, BigPow2(52), -92))

\* the vectors handed to setState: Math.sqrt(1 - p) at index 0 and
\* Math.sqrt(p) at the last index, the uniform superposition, and the
\* amplitude 1 - 2^-40 at the last index with zeros elsewhere
DoubleInputs ==
  LET dim == Dimension
  IN  {[i \in 0..(dim - 1) |-> IF i = 0 THEN complex(SqrtTable[AmplitudeDen - k], Zero)
                                ELSE IF i = dim - 1 THEN complex(SqrtTable[k], Zero)
                                ELSE ZERO] : k \in 0..AmplitudeDen}
        \cup {[i \in 0..(dim - 1) |-> complex(InvSqrtTable[svNumQubits], Zero)],
              [i \in 0..(dim - 1) |-> IF i = dim - 1 THEN complex(AlmostOne, Zero)
                                      ELSE ZERO]}

NextDouble ==
  \/ \E n \in 1..MaxQubits : New(n)
  \/ Reset
  \/ Live /\ \E v \in DoubleInputs : SetState(v)
  \/ \E q \in QubitArgs, rnd \in DoubleRandoms : Measure(q, rnd)
  \/ \E rnd \in DoubleRandoms : MeasureAll(rnd)

SpecDouble == Init /\ [][NextDouble]_vars

(***************************************************************************)
(* The StateVector driven from a known basis state by calls that return,    *)
(* the calls recorded                                                      *)
(***************************************************************************)
TraceGates == {H, X, CNOT}

\* the valid qubit indices of the register
ValidQubits == 0..(svNumQubits - 1)

InitTrace ==
  /\ svPhase = "unborn"
  /\ svNumQubits = 0
  /\ svVector = ZeroVector(0)
  /\ svLast = NoCall
  /\ svPrev = NoCall
  /\ svTracing = TRUE
  /\ svTrace = NoTrace
  /\ svOther = NoVector
  /\ InitCircuit

NextTrace ==
  \/ \E n \in 0..MaxCtorArg : New(n)
  \/ Reset
  \/ Live /\ \E v \in BasisInputs : SetState(v)
  \/ \E g \in TraceGates, q \in ValidQubits :
       g.numQubits = 1 /\ ApplySingleQubitGate(g, q)
  \/ \E g \in TraceGates, q1 \in ValidQubits, q2 \in ValidQubits :
       g.numQubits = 2 /\ q1 # q2 /\ ApplyTwoQubitGate(g, q1, q2)
  \/ \E q \in ValidQubits, rnd \in Randoms : Measure(q, rnd)

SpecTrace == InitTrace /\ [][NextTrace]_vars

\* the squared norm of the held vector
NormSquared == SumProb(svVector, Length(svVector))

\* no held amplitude is outside the value domain of the model
AllRepresentable ==
  \A i \in DOMAIN svVector : svVector[i].real # Unrep /\ svVector[i].imag # Unrep

(***************************************************************************)
(* Qubit (quantum/qubit.ts): a record of the amplitudes alpha and beta      *)
(***************************************************************************)
\* the rescaling of normalize() without the test norm > 0
Normalized_Unguarded(qb, norm) ==
  [alpha |-> scale(qb.alpha, NumInv(norm)), beta |-> scale(qb.beta, NumInv(norm))]

\* the body of normalize() once norm is computed
Normalized(qb, norm) ==
  IF NumGt(norm, Zero)
  THEN [alpha |-> scale(qb.alpha, NumInv(norm)), beta |-> scale(qb.beta, NumInv(norm))]
  ELSE qb

\* normalize()
normalize(qb) == Normalized(qb, NumSqrt(NumAdd(Prob(qb.alpha), Prob(qb.beta))))

\* setState(alpha, beta): the qubit it leaves
QubitSetState(alpha, beta) == normalize([alpha |-> alpha, beta |-> beta])

\* new Qubit(): |0>
NewQubit == normalize([alpha |-> ONE, beta |-> ZERO])

probabilityZero(qb) == Prob(qb.alpha)

probabilityOne(qb) == Prob(qb.beta)

\* what measure() returns when Math.random() gives rnd
QubitMeasureResult(qb, rnd) == IF NumLt(rnd, probabilityZero(qb)) THEN 0 ELSE 1

\* the qubit this.setState(ONE, ZERO) leaves
CollapsedToZero == QubitSetState(ONE, ZERO)

\* the qubit this.setState(ZERO, ONE) leaves
CollapsedToOne == QubitSetState(ZERO, ONE)

\* the qubit left in |0> whatever measure() returns
QubitCollapsed_Zero(result) == CollapsedToZero

\* the qubit measure() leaves when it returns result
QubitCollapsed(result) == IF result = 0 THEN CollapsedToZero ELSE CollapsedToOne

(***************************************************************************)
(* Gate application to Qubit objects (quantum/quantum-gates.ts).  The      *)
(* qubits are held in the array qs and addressed by index, so that two     *)
(* equal indices address one object, as they do in the source.             *)
(***************************************************************************)
\* SingleQubitGate.apply([qs[i]])
SingleQubitApply(gate, qs, i) ==
  LET qubit == qs[i]
      newAlpha == add(multiply(Entry(gate, 0, 0), qubit.alpha),
                      multiply(Entry(gate, 0, 1), qubit.beta))
      newBeta == add(multiply(Entry(gate, 1, 0), qubit.alpha),
                     multiply(Entry(gate, 1, 1), qubit.beta))
  IN  [qs EXCEPT ![i] = QubitSetState(newAlpha, newBeta)]

\* the amplitudes of the target exchanged whatever the control holds
CNOTApply_Always(qs, c, t) ==
  [qs EXCEPT ![t] = QubitSetState(qs[t].beta, qs[t].alpha)]

\* CNOTGate.apply([qs[c], qs[t]])
CNOTApply(qs, c, t) ==
  LET control == qs[c]
      target == qs[t]
      p1 == probabilityOne(control)
      newAlpha == complex(
        NumAdd(NumMul(target.alpha.real, NumSub(One, p1)), NumMul(target.beta.real, p1)),
        NumAdd(NumMul(target.alpha.imag, NumSub(One, p1)), NumMul(target.beta.imag, p1)))
      newBeta == complex(
        NumAdd(NumMul(target.beta.real, NumSub(One, p1)), NumMul(target.alpha.real, p1)),
        NumAdd(NumMul(target.beta.imag, NumSub(One, p1)), NumMul(target.alpha.imag, p1)))
  IN  IF NumGt(probabilityOne(control), Zero)
      THEN [qs EXCEPT ![t] = QubitSetState(newAlpha, newBeta)]
      ELSE qs

\* CZGate.apply([qs[c], qs[t]]): scale is handed the Complex (1 - 2 p1, 0)
CZApply(qs, c, t) ==
  LET control == qs[c]
      target == qs[t]
      p1 == probabilityOne(control)
      newBeta == scale(target.beta,
                       ToNumber(complex(NumSub(One, NumMul(Rat(2, 1), p1)), Zero)))
  IN  IF NumGt(probabilityOne(control), Zero)
      THEN [qs EXCEPT ![t] = QubitSetState(target.alpha, newBeta)]
      ELSE qs

\* SWAPGate.apply([qs[a], qs[b]])
SWAPApply(qs, a, b) ==
  LET tempAlpha == qs[a].alpha
      tempBeta == qs[a].beta
      first == [qs EXCEPT ![a] = QubitSetState(qs[b].alpha, qs[b].beta)]
  IN  [first EXCEPT ![b] = QubitSetState(tempAlpha, tempBeta)]

\* gate.apply(idx.map((index) => qs[index])); idx counts from 0, qs from 1
GateApply(gate, qs, idx) ==
  IF gate.numQubits = 1 THEN SingleQubitApply(gate, qs, idx[1] + 1)
  ELSE IF gate.name = "CNOT" THEN CNOTApply(qs, idx[1] + 1, idx[2] + 1)
  ELSE IF gate.name = "CZ" THEN CZApply(qs, idx[1] + 1, idx[2] + 1)
  ELSE SWAPApply(qs, idx[1] + 1, idx[2] + 1)

(***************************************************************************)
(* QuantumCircuit (quantum/quantum-circuit.ts)                             *)
(***************************************************************************)
\* the recorded operation { gate, qubits }; the gate object is held by name
Operation(gate, idx) == [gate |-> gate.name, qubits |-> idx]

\* the gate object an operation holds
GateOf(op) == CHOOSE g \in Gates : g.name = op.gate

\* get numQubits(): this._qubits.length
NumQubits == Len(qubits)

\* the index check without its lower bound
InvalidIndex_NoLowerBound(index) == index >= NumQubits

\* whether index is a valid qubit index
InvalidIndex(index) == index < 0 \/ index >= NumQubits

\* reset() without the assignment of an empty operation list
CircuitReset_KeepOperations ==
  /\ NumQubits > 0
  /\ qubits' = [i \in 1..NumQubits |-> QubitSetState(ONE, ZERO)]
  /\ operations' = operations
  /\ qcLast' = Returned("reset", <<>>, <<>>)
  /\ UNCHANGED <<qcOther, svVars>>

\* reset()
CircuitReset ==
  /\ NumQubits > 0
  /\ qubits' = [i \in 1..NumQubits |-> QubitSetState(ONE, ZERO)]
  /\ operations' = <<>>
  /\ qcLast' = Returned("reset", <<>>, <<>>)
  /\ UNCHANGED <<qcOther, svVars>>

\* initialize(index, alpha, beta)
Initialize(index, alpha, beta) ==
  /\ NumQubits > 0
  /\ IF InvalidIndex(index)
     THEN /\ qcLast' = Threw("initialize", "index")
          /\ UNCHANGED qubits
     ELSE /\ qubits' = [qubits EXCEPT ![index + 1] = QubitSetState(alpha, beta)]
          /\ qcLast' = Returned("initialize", <<>>, <<>>)
  /\ UNCHANGED <<operations, qcOther, svVars>>

\* the checks of addGate without the one on the number of indices
AddGateError_NoArityCheck(gate, idx) ==
  IF \E k \in 1..Len(idx) : InvalidIndex(idx[k]) THEN "index"
  ELSE ""

\* the check of addGate that fails, "" when none does
AddGateError(gate, idx) ==
  IF Len(idx) # gate.numQubits THEN "arity"
  ELSE IF \E k \in 1..Len(idx) : InvalidIndex(idx[k]) THEN "index"
  ELSE ""

\* addGate(gate, qubits), explored on operation lists of at most cap entries
AddGateUpTo(gate, idx, cap) ==
  /\ NumQubits > 0
  /\ IF AddGateError(gate, idx) # ""
     THEN /\ qcLast' = Threw("addGate", AddGateError(gate, idx))
          /\ UNCHANGED operations
     ELSE /\ Len(operations) < cap
          /\ operations' = Append(operations, Operation(gate, idx))
          /\ qcLast' = Returned("addGate", <<>>, <<>>)
  /\ UNCHANGED <<qubits, qcOther, svVars>>

\* addGate(gate, qubits)
AddGate(gate, idx) == AddGateUpTo(gate, idx, MaxOps)

RECURSIVE ExecuteFrom_Reversed(_, _, _)
\* the loop of execute run from the last operation to operation k
ExecuteFrom_Reversed(qs, ops, k) ==
  IF k > Len(ops) THEN qs
  ELSE GateApply(GateOf(ops[k]), ExecuteFrom_Reversed(qs, ops, k + 1), ops[k].qubits)

RECURSIVE ExecuteFrom(_, _, _)
\* the loop of execute from operation k on
ExecuteFrom(qs, ops, k) ==
  IF k > Len(ops) THEN qs
  ELSE ExecuteFrom(GateApply(GateOf(ops[k]), qs, ops[k].qubits), ops, k + 1)

\* execute()
Execute ==
  /\ NumQubits > 0
  /\ qubits' = ExecuteFrom(qubits, operations, 1)
  /\ qcLast' = Returned("execute", <<>>, <<>>)
  /\ UNCHANGED <<operations, qcOther, svVars>>

\* every qubit collapsed to the outcome, not only the measured one
MeasuredQubits_All(qs, index, result) ==
  [i \in 1..Len(qs) |-> QubitCollapsed(result)]

\* the qubits after this._qubits[index].measure() returned result
MeasuredQubits(qs, index, result) ==
  [qs EXCEPT ![index + 1] = QubitCollapsed(result)]

\* measure(index)
CircuitMeasure(index, rnd) ==
  /\ NumQubits > 0
  /\ IF InvalidIndex(index)
     THEN /\ qcLast' = Threw("measure", "index")
          /\ UNCHANGED qubits
     ELSE LET result == QubitMeasureResult(qubits[index + 1], rnd)
          IN  /\ qubits' = MeasuredQubits(qubits, index, result)
              /\ qcLast' = Returned("measure", <<>>, <<result>>)
  /\ UNCHANGED <<operations, qcOther, svVars>>

\* measureAll(); rnds[i] is the number drawn for qubit i
CircuitMeasureAll(rnds) ==
  /\ NumQubits > 0
  /\ LET results == [i \in 1..NumQubits |-> QubitMeasureResult(qubits[i], rnds[i])]
     IN  /\ qubits' = [i \in 1..NumQubits |-> QubitCollapsed(results[i])]
         /\ qcLast' = Returned("measureAll", <<>>, results)
  /\ UNCHANGED <<operations, qcOther, svVars>>

\* the qubits of the circuit clone() builds: each new Qubit is given the
\* amplitudes of its original through setState, which normalizes them
CloneQubits(qs) == [i \in 1..Len(qs) |-> QubitSetState(qs[i].alpha, qs[i].beta)]

\* [...this._operations]
CloneOperations(ops) == [k \in 1..Len(ops) |-> ops[k]]

\* clone(); keep tells which of the two circuits the later calls go to, the
\* other one is held in qcOther
CircuitClone(keep) ==
  /\ NumQubits > 0
  /\ IF keep = "original"
     THEN /\ UNCHANGED <<qubits, operations>>
          /\ qcOther' = [qubits |-> CloneQubits(qubits),
                         operations |-> CloneOperations(operations)]
     ELSE /\ qubits' = CloneQubits(qubits)
          /\ operations' = CloneOperations(operations)
          /\ qcOther' = [qubits |-> qubits, operations |-> operations]
  /\ qcLast' = Returned("clone", <<keep>>, <<>>)
  /\ UNCHANGED svVars

(***************************************************************************)
(* The QuantumCircuit under arbitrary callers                              *)
(***************************************************************************)
\* the circuits constructed: new QuantumCircuit(n)
CircuitSizes == {1, 2}

CircuitGates == {H, CNOT, CZ, SWAP}

\* the index lists handed to addGate: of every length up to 3, some indices
\* out of range, some repeated
IndexLists ==
  {<<>>, <<-1>>, <<0>>, <<1>>, <<0, 0>>, <<0, 1>>, <<1, 0>>, <<0, 2>>, <<0, 1, 0>>}

\* the values Math.random() gives in the circuit: a qubit's probabilityZero()
\* is compared with the draw, and both sides of 1/2 are drawn
CircuitRandoms == {Zero, Rat(1, 2)}

\* the amplitudes handed to initialize, normalized or not
AmplitudeInputs ==
  {<<ZERO, ONE>>, <<ONE, scale(ONE, Rat(-1, 1))>>, <<ZERO, ZERO>>}

InitCircuitSpec ==
  /\ svPhase = "unborn"
  /\ svNumQubits = 0
  /\ svVector = ZeroVector(0)
  /\ svLast = NoCall
  /\ svPrev = NoCall
  /\ svTracing = FALSE
  /\ svTrace = NoTrace
  /\ svOther = NoVector
  /\ \E n \in CircuitSizes : qubits = [i \in 1..n |-> NewQubit]
  /\ operations = <<>>
  /\ qcLast = Returned("new", <<>>, <<>>)
  /\ qcOther = NoCircuit

NextCircuit ==
  \/ CircuitReset
  \/ \E index \in (-1)..2, ab \in AmplitudeInputs : Initialize(index, ab[1], ab[2])
  \/ \E g \in CircuitGates, idx \in IndexLists : AddGate(g, idx)
  \/ Execute
  \/ \E index \in (-1)..2, rnd \in CircuitRandoms : CircuitMeasure(index, rnd)
  \/ \E rnds \in [1..NumQubits -> CircuitRandoms] : CircuitMeasureAll(rnds)

SpecCircuit == InitCircuitSpec /\ [][NextCircuit]_vars

\* no held qubit amplitude is outside the value domain of the model
AllQubitsRepresentable ==
  \A i \in 1..NumQubits :
    /\ qubits[i].alpha.real # Unrep /\ qubits[i].alpha.imag # Unrep
    /\ qubits[i].beta.real # Unrep /\ qubits[i].beta.imag # Unrep

(***************************************************************************)
(* Properties of the StateVector                                           *)
(***************************************************************************)
\* the double 1e-9
Nano == NumInv(ToDbl(Rat(1000000000, 1)))

\* |x - 1| <= 1e-9; false for NaN and the infinities
NearOne(x) ==
  /\ IsFinite(x)
  /\ IF IsDbl(x) THEN ~NumGt(NumAbs(NumSub(x, One)), Nano)
     ELSE /\ x.sg > 0
          /\ x.r = 1
          /\ (IF x.n > x.d THEN x.n - x.d ELSE x.d - x.n) <= x.d \div 1000000000

\* |x| <= 1e-9; false for NaN and the infinities
NearZero(x) ==
  /\ IsFinite(x)
  /\ IF IsDbl(x) THEN ~NumGt(NumAbs(x), Nano)
     ELSE x.sg = 0 \/ (x.r = 1 /\ x.n <= x.d \div 1000000000)

\* vec is the basis state k up to tolerance
IsBasisState(vec, k) ==
  \A i \in DOMAIN vec :
    /\ NearZero(vec[i].imag)
    /\ IF i = k THEN NearOne(vec[i].real) ELSE NearZero(vec[i].real)

\* C1: in every state a live StateVector reaches by reset, setState, gate
\* applications and measurements, the squared magnitudes of its amplitudes
\* sum to 1 (to tolerance).
C1_NormIsOne == Live => NearOne(NormSquared)

\* C3: on two qubits from |00>, after H on qubit 0 and CNOT [0, 1], both
\* outcomes of measure(0) are possible, each with probability 1/2, and
\* measure(1) returns what measure(0) returned.
BellCalls ==
  <<Returned("applySingleQubitGate", <<"H", 0>>, <<>>),
    Returned("applyTwoQubitGate", <<"CNOT", 0, 1>>, <<>>)>>

C3_BellPair ==
  svNumQubits = 2 /\ svTrace.base = 0 =>
    /\ svTrace.calls = BellCalls =>
         /\ SumProbWhere(svVector, 4, 0, 1) = Rat(1, 2)
         /\ \E rnd \in Randoms : MeasureResult(svVector, 0, rnd) = 1
         /\ \E rnd \in Randoms : MeasureResult(svVector, 0, rnd) = 0
    /\ \A b0, b1 \in {0, 1} :
         svTrace.calls = BellCalls \o <<Returned("measure", <<0>>, <<b0>>),
                                        Returned("measure", <<1>>, <<b1>>)>>
           => b0 = b1

\* C4: when measure(q) returned b and the next call is measure(q) again, it
\* returns b too, whatever number is drawn.
C4_RepeatedMeasure ==
  /\ svLast.op = "measure" /\ svLast.status = "ok"
  /\ svPrev.op = "measure" /\ svPrev.arg = svLast.arg
  => svLast.result = svPrev.result

\* C5: H applied twice to the same qubit of a register in a basis state
\* restores that basis state.
C5_HTwice ==
  \A q \in 0..(svNumQubits - 1) :
    /\ Live /\ svTrace.base # -1
    /\ svTrace.calls = <<Returned("applySingleQubitGate", <<"H", q>>, <<>>),
                         Returned("applySingleQubitGate", <<"H", q>>, <<>>)>>
    => IsBasisState(svVector, svTrace.base)

\* C6: X applied to qubit k of a register in |0...0> leaves amplitude 1 at
\* index 2^k and 0 at every other index.
C6_XFlips ==
  \A k \in 0..(svNumQubits - 1) :
    /\ Live /\ svTrace.base = 0
    /\ svTrace.calls = <<Returned("applySingleQubitGate", <<"X", k>>, <<>>)>>
    => IsBasisState(svVector, 2^k)

\* C8: applySingleQubitGate and applyTwoQubitGate throw when the arity of the
\* gate does not match, when an index is outside [0, numQubits) or when the
\* two indices are equal (no step that returns is a call with such
\* arguments), and a call that throws leaves the amplitudes as they were.
C8_GateValidation ==
  [][/\ svLast'.op = "applySingleQubitGate" /\ svLast'.status # "error" =>
          \A g \in Gates, q \in QubitArgs :
            g.numQubits # 1 \/ q \notin 0..(svNumQubits - 1)
              => ~ApplySingleQubitGate(g, q)
     /\ svLast'.op = "applyTwoQubitGate" /\ svLast'.status # "error" =>
          \A g \in Gates, q1 \in QubitArgs, q2 \in QubitArgs :
            \/ g.numQubits # 2
            \/ q1 \notin 0..(svNumQubits - 1)
            \/ q2 \notin 0..(svNumQubits - 1)
            \/ q1 = q2
            => ~ApplyTwoQubitGate(g, q1, q2)
     /\ svLast'.op \in {"applySingleQubitGate", "applyTwoQubitGate"}
          /\ svLast'.status = "error" => svVector' = svVector]_vars

\* a two-qubit gate refused for equal indices on a register in superposition
C8_Witness ==
  /\ svLast = Threw("applyTwoQubitGate", "same")
  /\ svNumQubits = 2
  /\ svVector[3] = complex(Zero, Rat(4, 5))

\* C9: setState(v) returns only when v has 2^numQubits entries whose squared
\* magnitudes sum to 1 within 1e-10; when it throws the held amplitudes stay,
\* when it returns they equal v.
C9_SetState ==
  [][Live =>
       \A v \in SetStateInputs :
         SetState(v) =>
           IF svLast'.status = "ok"
           THEN /\ Length(v) = 2^svNumQubits
                /\ NearOne(SumProb(v, Length(v)))
                /\ svVector' = v
           ELSE svVector' = svVector]_vars

\* C10: the constructor throws for numQubits > 15 and otherwise yields
\* 2^numQubits amplitudes, 1 at index 0 and 0 elsewhere.
C10_Constructor ==
  [][\A n \in 0..MaxCtorArg :
       New(n) =>
         IF n > 15
         THEN svPhase' = "failed" /\ svLast'.status = "error"
         ELSE /\ svPhase' = "live" /\ svLast'.status = "ok"
              /\ svNumQubits' = n
              /\ DOMAIN svVector' = 0..(2^n - 1)
              /\ \A i \in DOMAIN svVector' :
                   svVector'[i] = IF i = 0 THEN ONE ELSE ZERO]_vars

\* a register of 15 qubits was constructed
C10_Witness ==
  svPhase = "live" /\ svNumQubits = 15 /\ Length(svVector) = 32768 /\ svLast.op = "new"

(***************************************************************************)
(* Properties of the QuantumCircuit                                        *)
(***************************************************************************)
\* |alpha|^2 + |beta|^2 of a qubit
QubitNormSquared(qb) == NumAdd(Prob(qb.alpha), Prob(qb.beta))

\* the zero vector, which setState leaves unnormalized
IsZeroQubit(qb) == qb.alpha = ZERO /\ qb.beta = ZERO

\* C2: after any sequence of initialize, addGate, execute, measure,
\* measureAll and reset, every qubit of the circuit has
\* |alpha|^2 + |beta|^2 = 1 (to tolerance).  The zero vector is set aside: it
\* is what initialize with two zero amplitudes leaves, which the claim
\* excludes.
C2_QubitNorm ==
  \A i \in 1..NumQubits :
    IsZeroQubit(qubits[i]) \/ NearOne(QubitNormSquared(qubits[i]))

C24_ScaleComplex ==
  [][\A g \in SingleQubitGates, q \in QubitArgs :
       ApplySingleQubitGate(g, q) /\ svLast'.status = "ok" =>
         \A i \in DOMAIN svVector, r \in {0, 1}, c \in {0, 1} :
           scale(svVector[i], ToNumber(Entry(g, r, c)))
             = multiply(svVector[i], Entry(g, r, c))]_vars

\* index j with bit k set to b
WithBit(j, k, b) == j - Bit(j, k) * Pow2(k) + b * Pow2(k)

\* the matrix-vector product of the gate acting on qubit k of old, at index j
SingleQubitProduct(old, g, k, j) ==
  add(multiply(Entry(g, Bit(j, k), 0), old[WithBit(j, k, 0)]),
      multiply(Entry(g, Bit(j, k), 1), old[WithBit(j, k, 1)]))

\* C23: applySingleQubitGate(g, k) leaves at every index j the sum over b of
\* g.matrix[bit k of j][b] times the amplitude the register held before the
\* call at j with bit k set to b.
C23_SingleQubitProduct ==
  [][\A g \in SingleQubitGates, k \in QubitArgs :
       ApplySingleQubitGate(g, k) /\ svLast'.status = "ok" =>
         \A j \in DOMAIN svVector :
           svVector'[j] = SingleQubitProduct(svVector, g, k, j)]_vars

\* the basis state CNOT with control c and target t maps basis state k to
CNOTImage(k, c, t) == IF Bit(k, c) = 1 THEN Flip(k, t) ELSE k

\* C21: for every ordered pair of distinct indices (c, t), c > t included,
\* applyTwoQubitGate(CNOT, [c, t]) on a register in basis state k leaves the
\* basis state with bit t flipped exactly when bit c of k is 1.
C21_CNOTBasis ==
  \A c \in 0..(svNumQubits - 1), t \in 0..(svNumQubits - 1) :
    /\ Live /\ svTrace.base # -1
    /\ svTrace.calls = <<Returned("applyTwoQubitGate", <<"CNOT", c, t>>, <<>>)>>
    => IsBasisState(svVector, CNOTImage(svTrace.base, c, t))

\* C22: applyTwoQubitGate puts the two indices in order before the loop:
\* the call with [q1, q2] leaves the amplitude array the call with [q2, q1]
\* leaves, and the lower index is the control bit of the matrix, the higher
\* one its target bit.
C22_IndexOrder ==
  [][svLast'.op = "applyTwoQubitGate" /\ svLast'.status = "ok" =>
       LET g == CHOOSE gate \in TwoQubitGates : gate.name = svLast'.arg[1]
           q1 == svLast'.arg[2]
           q2 == svLast'.arg[3]
       IN  /\ svVector' = TwoQubitResult(svVector, g, q2, q1)
           /\ ControlBit(q1, q2) < TargetBit(q1, q2)
           /\ {ControlBit(q1, q2), TargetBit(q1, q2)} = {q1, q2}
           /\ ControlBit(q1, q2) = ControlBit(q2, q1)
           /\ TargetBit(q1, q2) = TargetBit(q2, q1)]_vars

\* a two-qubit gate was applied with the higher index first
C22_Witness ==
  /\ svLast.op = "applyTwoQubitGate" /\ svLast.status = "ok"
  /\ svLast.arg[2] > svLast.arg[3]

(***************************************************************************)
(* Properties of measurement                                               *)
(***************************************************************************)
\* new is old collapsed on bit q = b, the kept branch having had mass m and
\* norm root: the other amplitudes are zero and each kept one times root is
\* the amplitude of old
CollapsedBy(old, new, q, b, m, root) ==
  NumGt(m, Zero) =>
    \A i \in DOMAIN old :
      IF Bit(i, q) # b THEN new[i] = ZERO
      ELSE scale(new[i], root) = old[i]

\* the same with the norm computed from the mass
CollapsedFrom(old, new, q, b, m) == CollapsedBy(old, new, q, b, m, NumSqrt(m))

C27_MeasurePositiveMass ==
  [][/\ svLast.op = "setState" /\ svLast.status = "ok"
     /\ svLast'.op = "measure" /\ svLast'.status = "ok"
     => NumGt(SumProbWhere(svVector, Length(svVector),
                           svLast'.arg[1], svLast'.result[1]), Zero)]_vars

\* the index measureAll collapsed the register to
CollapsedIndex(vec) == CHOOSE k \in DOMAIN vec : vec = BasisVector(Length(vec), k)

\* C28: when the register is in a state a successful setState left and
\* measureAll() is called, whatever number is drawn the basis index it
\* collapses to had strictly positive probability before the call.
C28_MeasureAllPositive ==
  [][/\ svLast.op = "setState" /\ svLast.status = "ok"
     /\ svLast'.op = "measureAll"
     => NumGt(Prob(svVector[CollapsedIndex(svVector')]), Zero)]_vars

(***************************************************************************)
(* Frame properties of the QuantumCircuit                                  *)
(***************************************************************************)
\* C29: QuantumCircuit.measure(i) with i in range changes no qubit but
\* qubit i and leaves the operation list as it was; with i out of range it
\* throws and changes neither the qubits nor the operation list.
C29_MeasureFrame ==
  [][qcLast'.op = "measure" =>
     \A index \in (-1)..2, rnd \in CircuitRandoms :
       CircuitMeasure(index, rnd) =>
         /\ operations' = operations
         /\ IF index < 0 \/ index >= Len(qubits)
            THEN qcLast'.status = "error" /\ qubits' = qubits
            ELSE /\ qcLast'.status = "ok"
                 /\ Len(qubits') = Len(qubits)
                 /\ \A i \in 1..Len(qubits) : i # index + 1 => qubits'[i] = qubits[i]]_vars

\* a qubit of a two-qubit circuit holding an operation was measured while
\* the other qubit was in neither |0> nor |1>
C29_Witness ==
  /\ qcLast.op = "measure" /\ qcLast.status = "ok"
  /\ NumQubits = 2 /\ Len(operations) = 1
  /\ \E i \in 1..2 : qubits[i] \notin {QubitCollapsed(0), QubitCollapsed(1)}
                       /\ ~IsZeroQubit(qubits[i])

\* a * (1 - p1) + b * p1 on both components
Blend(a, b, p1) == add(scale(a, NumSub(One, p1)), scale(b, p1))

\* C30: executing a circuit that holds one CNOT or CZ operation [c, t]
\* accepted by addGate leaves the control qubit c and every qubit other than
\* t as they were; for CNOT with p1 = probabilityOne() of the control
\* positive, qubit t is left with alpha * (1 - p1) + beta * p1 and
\* beta * (1 - p1) + alpha * p1, renormalized.
C30_ControlFrame ==
  [][/\ qcLast'.op = "execute"
     /\ Len(operations) = 1
     /\ operations[1].gate \in {"CNOT", "CZ"}
     => LET c == operations[1].qubits[1] + 1
            t == operations[1].qubits[2] + 1
            p1 == probabilityOne(qubits[c])
        IN  /\ qubits'[c] = qubits[c]
            /\ \A i \in 1..Len(qubits) : i # t => qubits'[i] = qubits[i]
            /\ operations[1].gate = "CNOT" /\ NumGt(p1, Zero) =>
                 qubits'[t] = QubitSetState(Blend(qubits[t].alpha, qubits[t].beta, p1),
                                            Blend(qubits[t].beta, qubits[t].alpha, p1))]_vars

(***************************************************************************)
(* A QuantumCircuit and a StateVector of the same size side by side, both  *)
(* freshly constructed and both driven by single-qubit gates               *)
(***************************************************************************)
\* the longest gate sequence applied to the StateVector between two resets
PairOps == 2

PairGates == {H, X, Z}

InitPair ==
  /\ \E n \in CircuitSizes :
       /\ qubits = [i \in 1..n |-> NewQubit]
       /\ svNumQubits = n
       /\ svVector = BasisVector(Pow2(n), 0)
       /\ svLast = Returned("new", <<n>>, <<>>)
  /\ svPhase = "live"
  /\ svPrev = NoCall
  /\ svTracing = TRUE
  /\ svTrace = [base |-> 0, calls |-> <<>>]
  /\ svOther = NoVector
  /\ operations = <<>>
  /\ qcLast = Returned("new", <<>>, <<>>)
  /\ qcOther = NoCircuit

NextPair ==
  \/ \E g \in PairGates, k \in ValidQubits : AddGate(g, <<k>>)
  \/ Execute
  \/ CircuitReset
  \/ \E g \in PairGates, k \in ValidQubits :
       svTrace.base = 0 /\ Len(svTrace.calls) < PairOps /\ ApplySingleQubitGate(g, k)
  \/ Reset

SpecPair == InitPair /\ [][NextPair]_vars

\* the probability of bit k being 1 in vec
Marginal(vec, k) == SumProbWhere(vec, Length(vec), k, 1)

\* the applySingleQubitGate calls that apply the operations ops in order
CallsOf(ops) ==
  [j \in 1..Len(ops) |->
     Returned("applySingleQubitGate", <<ops[j].gate, ops[j].qubits[1]>>, <<>>)]

\* C26: when a circuit of single-qubit gates is executed from |0...0> and a
\* StateVector of the same size was given the same gates in the same order
\* from |0...0>, every qubit's probabilityOne() after execute equals the
\* marginal probability of that qubit being 1 in the StateVector.
C26_CircuitMatchesStateVector ==
  [][/\ Execute
     /\ qubits = [i \in 1..NumQubits |-> NewQubit]
     /\ svTrace.base = 0
     /\ svTrace.calls = CallsOf(operations)
     => \A k \in 0..(NumQubits - 1) :
          probabilityOne(qubits'[k + 1]) = Marginal(svVector, k)]_vars

(***************************************************************************)
(* Measurement                                                             *)
(***************************************************************************)
\* every amplitude of vec is a finite number
AllFinite(vec) ==
  \A i \in DOMAIN vec : IsFinite(vec[i].real) /\ IsFinite(vec[i].imag)

\* C11: when the register is in a state a successful setState left and
\* measure(q) is called, whatever number is drawn the amplitudes it leaves are
\* all finite: none is NaN and none is infinite.
C11_MeasureFinite ==
  [][/\ svLast.op = "setState" /\ svLast.status = "ok"
     /\ svLast'.op = "measure" /\ svLast'.status = "ok"
     => AllFinite(svVector')]_vars

\* C12: executing a circuit that holds one CNOT operation [c, t] whose
\* control qubit c has probabilityOne() = 0 leaves every qubit, the target t
\* and the control c among them, exactly as it was.
C12_CNOTControlZero ==
  [][/\ qcLast'.op = "execute"
     /\ Len(operations) = 1
     /\ operations[1].gate = "CNOT"
     /\ probabilityOne(qubits[operations[1].qubits[1] + 1]) = Zero
     => qubits' = qubits]_vars

\* a CNOT [c, t] with c # t was executed, after which the control has
\* probabilityOne() = 0 and the target is in |1>
C12_Witness ==
  /\ qcLast.op = "execute"
  /\ Len(operations) = 1
  /\ operations[1].gate = "CNOT"
  /\ operations[1].qubits[1] # operations[1].qubits[2]
  /\ probabilityOne(qubits[operations[1].qubits[1] + 1]) = Zero
  /\ qubits[operations[1].qubits[2] + 1] = QubitCollapsed(1)

\* the basis state |b> of one qubit: alpha = 1, beta = 0 for b = 0 and
\* alpha = 0, beta = 1 for b = 1
BasisQubit(b) ==
  [alpha |-> IF b = 0 THEN ONE ELSE ZERO, beta |-> IF b = 0 THEN ZERO ELSE ONE]

\* bit is what a measurement of a qubit with probabilityZero() = p0 returns
\* when rnd is drawn
DrawGives(p0, rnd, bit) == bit = (IF NumLt(rnd, p0) THEN 0 ELSE 1)

\* a qubit with probabilityZero() = p0 before was measured with the draw rnd,
\* returned bit and became after, whose probabilityZero() is p0After
MeasuredAs(p0, rnd, bit, after, p0After) ==
  /\ DrawGives(p0, rnd, bit)
  /\ after = BasisQubit(bit)
  /\ \A r \in Randoms : DrawGives(p0After, r, bit)

\* if the step taken is measure(index) returning bit, which it is when taken
\* says so and some draw makes qubit qb return bit, the qubit was measured as
\* the claim says
MeasureChecked(qb, bit, taken, after) ==
  \A rnd \in CircuitRandoms :
    QubitMeasureResult(qb, rnd) = bit /\ taken =>
      MeasuredAs(probabilityZero(qb), rnd, bit, after, probabilityZero(after))

\* C13: measure(i) and measureAll return for each measured qubit the bit 0
\* when the draw is below its probabilityZero() and the bit 1 otherwise, leave
\* the qubit exactly in the basis state of that bit, and any further
\* measurement of it returns the same bit whatever is drawn.
C13_MeasureCollapse ==
  [][/\ qcLast'.op = "measure" /\ qcLast'.status = "ok" =>
          \A index \in 0..(NumQubits - 1) :
            MeasureChecked(qubits[index + 1], qcLast'.result[1],
                           qubits' = MeasuredQubits(qubits, index, qcLast'.result[1]),
                           qubits'[index + 1])
     /\ qcLast'.op = "measureAll" =>
          \A i \in 1..NumQubits :
            MeasureChecked(qubits[i], qcLast'.result[i],
                           qubits'[i] = QubitCollapsed(qcLast'.result[i]),
                           qubits'[i])]_vars

\* measure returned 1 and left a qubit in |1>
C13_Witness ==
  /\ qcLast.op = "measure" /\ qcLast.status = "ok"
  /\ qcLast.result = <<1>>
  /\ \E i \in 1..NumQubits : qubits[i] = BasisQubit(1)

RECURSIVE IndexOf(_, _)
\* the index getProbability makes of the first n entries of basisState:
\* index |= basisState[i] << i
IndexOf(basisState, n) ==
  IF n = 0 THEN 0 ELSE IndexOf(basisState, n - 1) + basisState[n] * Pow2(n - 1)

\* the check of getProbability that fails on basisState, "" when none does
GetProbabilityError(basisState) ==
  IF Len(basisState) # svNumQubits THEN "length"
  ELSE IF \E i \in 1..Len(basisState) : basisState[i] \notin {0, 1} THEN "bits"
  ELSE ""

\* what getProbability(basisState) returns on the register holding vec
getProbability(vec, basisState) ==
  Prob(vec[IndexOf(basisState, Len(basisState))])

\* C14: measureAll leaves the register in one basis state, amplitude 1 at an
\* index and 0 elsewhere, and returns the bits of that index, qubit 0 first;
\* right after it getProbability of the returned bits is 1 and of every
\* other bit array 0, and a second measureAll returns the same bits whatever
\* is drawn.
C14_MeasureAllBasis ==
  [][svLast'.op = "measureAll" =>
       /\ svLast'.status = "ok"
       /\ \E k \in DOMAIN svVector' :
            /\ svVector' = [i \in DOMAIN svVector |-> IF i = k THEN ONE ELSE ZERO]
            /\ svLast'.result = [j \in 1..svNumQubits |-> (k \div Pow2(j - 1)) % 2]
       /\ \A bs \in [1..svNumQubits -> {0, 1}] :
            /\ GetProbabilityError(bs) = ""
            /\ getProbability(svVector', bs) = (IF bs = svLast'.result THEN One ELSE Zero)
       /\ \A rnd \in Randoms :
            Bits(Sample(svVector', rnd, 0, Zero), svNumQubits) = svLast'.result]_vars

\* measureAll on a register of two qubits returned [1, 0]
C14_Witness ==
  /\ svLast.op = "measureAll"
  /\ svNumQubits = 2
  /\ svLast.result = <<1, 0>>
  /\ svVector = BasisVector(4, 1)

\* C18: reset leaves every qubit with alpha and beta exactly (1, 0) and the
\* operation list empty, whatever the circuit held before; an execute right
\* after a reset changes neither the qubits nor the operation list.
C18_Reset ==
  [][/\ qcLast'.op = "reset" =>
          /\ Len(qubits') = Len(qubits)
          /\ \A i \in 1..Len(qubits') : qubits'[i] = BasisQubit(0)
          /\ operations' = <<>>
     /\ qcLast.op = "reset" /\ qcLast'.op = "execute" =>
          /\ qubits' = qubits
          /\ operations' = operations]_vars

\* a circuit of two qubits was reset
C18_Witness ==
  /\ qcLast.op = "reset"
  /\ NumQubits = 2
  /\ operations = <<>>
  /\ \A i \in 1..2 : qubits[i] = BasisQubit(0)

\* every qubit of the circuit but qubit index is after the step as before
OthersKept(index) ==
  /\ Len(qubits') = Len(qubits)
  /\ \A i \in 1..Len(qubits) : i # index + 1 => qubits'[i] = qubits[i]

\* C19: addGate leaves every qubit as it was; the qubits change only in
\* execute, initialize, measure, measureAll and reset; initialize(i, ...)
\* leaves the operation list and every qubit but qubit i as they were, and
\* with i outside [0, numQubits) it throws and changes nothing.
C19_RecordThenApply ==
  [][/\ qcLast'.op = "addGate" => qubits' = qubits
     /\ qubits' # qubits =>
          qcLast'.op \in {"execute", "initialize", "measure", "measureAll", "reset"}
     /\ qcLast'.op = "initialize" =>
          /\ operations' = operations
          /\ \A index \in (-1)..2 :
               \/ IF index < 0 \/ index >= Len(qubits)
                  THEN qcLast'.status = "error" /\ qubits' = qubits
                  ELSE qcLast'.status = "ok" /\ OthersKept(index)
               \/ ~\E ab \in AmplitudeInputs : Initialize(index, ab[1], ab[2])]_vars

\* initialize put a qubit of a two-qubit circuit that holds an operation in a
\* state that is neither |0> nor |1>
C19_Witness ==
  /\ qcLast.op = "initialize" /\ qcLast.status = "ok"
  /\ NumQubits = 2 /\ Len(operations) = 1
  /\ \E i \in 1..2 : qubits[i] \notin {BasisQubit(0), BasisQubit(1)}

\* the qubit stored for the inputs alpha and beta of joint norm norm: both
\* amplitudes zero when both inputs are, and else amplitudes that multiplied
\* by norm are the inputs
StoredFor(alpha, beta, norm, stored) ==
  IF alpha = ZERO /\ beta = ZERO
  THEN stored = [alpha |-> ZERO, beta |-> ZERO]
  ELSE scale(stored.alpha, norm) = alpha /\ scale(stored.beta, norm) = beta

\* sqrt(|alpha|^2 + |beta|^2) for every pair of amplitudes handed to
\* initialize
JointNorm ==
  [ab \in AmplitudeInputs |-> NumSqrt(NumAdd(Prob(ab[1]), Prob(ab[2])))]

SequenceOps == 2

SequenceGates == {H, X}

NextSequence ==
  \/ \E g \in SequenceGates, k \in 0..(NumQubits - 1) : AddGateUpTo(g, <<k>>, SequenceOps)
  \/ Execute
  \/ CircuitReset

SpecSequence == InitCircuitSpec /\ [][NextSequence]_vars

RECURSIVE AppliedInOrder(_, _)
\* the qubits qs after the gates of ops were applied to them one after the
\* other, the first recorded first
AppliedInOrder(qs, ops) ==
  IF ops = <<>> THEN qs
  ELSE GateApply(GateOf(ops[Len(ops)]),
                 AppliedInOrder(qs, SubSeq(ops, 1, Len(ops) - 1)),
                 ops[Len(ops)].qubits)

\* C17: execute leaves the operation list as it was and the qubits as the
\* recorded gates applied once each in the order of recording leave them; a
\* second execute then leaves the qubits as one execute of the list
\* concatenated with itself would have left the qubits the first started from.
C17_ExecuteOrder ==
  [][qcLast'.op = "execute" =>
       /\ operations' = operations
       /\ qubits' = AppliedInOrder(qubits, operations)
       /\ ExecuteFrom(qubits', operations', 1)
            = AppliedInOrder(qubits, operations \o operations)]_vars

\* X and then H were recorded for qubit 0 and executed from |0>, which leaves
\* (|0> - |1>)/sqrt 2; H and then X would have left (|0> + |1>)/sqrt 2
C17_Witness ==
  /\ qcLast.op = "execute"
  /\ operations = <<Operation(X, <<0>>), Operation(H, <<0>>)>>
  /\ qubits[1] = [alpha |-> complex(InvSqrt2, Zero),
                  beta |-> complex(NumNeg(InvSqrt2), Zero)]

(***************************************************************************)
(* A StateVector and its clone: one clone is made, at any moment            *)
(***************************************************************************)
CloneGates == {X, CNOT}

\* the vectors handed to setState: the basis state |1...1> and the uniform
\* superposition
CloneInputs ==
  {BasisVector(Dimension, Dimension - 1),
   [i \in 0..(Dimension - 1) |-> complex(NumInv(NumSqrt(Rat(Dimension, 1))), Zero)]}

\* the values Math.random() gives: both outcomes of a uniform superposition
\* are drawn
CloneRandoms == {Zero, Rat(1, 2)}

NextClone ==
  \/ \E n \in 1..MaxQubits : New(n)
  \/ Reset
  \/ Live /\ \E v \in CloneInputs : SetState(v)
  \/ \E g \in CloneGates, q \in ValidQubits :
       g.numQubits = 1 /\ ApplySingleQubitGate(g, q)
  \/ \E g \in CloneGates, q1 \in ValidQubits, q2 \in ValidQubits :
       g.numQubits = 2 /\ q1 # q2 /\ ApplyTwoQubitGate(g, q1, q2)
  \/ \E q \in ValidQubits, rnd \in CloneRandoms : Measure(q, rnd)
  \/ \E rnd \in CloneRandoms : MeasureAll(rnd)
  \/ \E keep \in {"original", "clone"} : svOther = NoVector /\ Clone(keep)

SpecClone == Init /\ [][NextClone]_vars

\* C15: right after sv2 = sv.clone() the two objects hold equal amplitudes,
\* those sv held before the call; and no later reset, setState, gate
\* application, measure or measureAll on one of the two changes the
\* amplitudes of the other.
C15_CloneIndependent ==
  [][/\ svLast'.op = "clone" =>
          /\ svVector' = svVector
          /\ svOther' = svVector
     /\ svLast'.op # "clone" => svOther' = svOther]_vars

\* after a clone of a register in uniform superposition a measureAll on one
\* object collapsed it while the other still holds the superposition
C15_Witness ==
  /\ svLast.op = "measureAll"
  /\ svNumQubits = 2
  /\ \E k \in DOMAIN svVector : svVector = BasisVector(4, k)
  /\ svOther = [i \in 0..3 |-> complex(Rat(1, 2), Zero)]

(***************************************************************************)
(* A QuantumCircuit of one qubit and its clone, the amplitudes in binary64  *)
(***************************************************************************)
CloneCircuitGates == {X, CNOT}

\* the amplitudes handed to initialize: |1>, and the doubles 1 and 1
CloneAmplitudes ==
  {<<ZERO, ONE>>,
   <<complex(ToDbl(One), Zero), complex(ToDbl(One), Zero)>>}

CloneIndexLists == {<<0>>, <<0, 1>>}

NextCircuitClone ==
  \/ CircuitReset
  \/ \E index \in 0..(NumQubits - 1), ab \in CloneAmplitudes :
       Initialize(index, ab[1], ab[2])
  \/ \E g \in CloneCircuitGates, idx \in CloneIndexLists : AddGate(g, idx)
  \/ Execute
  \/ \E index \in 0..(NumQubits - 1), rnd \in CircuitRandoms : CircuitMeasure(index, rnd)
  \/ \E rnds \in [1..NumQubits -> CircuitRandoms] : CircuitMeasureAll(rnds)
  \/ \E keep \in {"original", "clone"} : qcOther = NoCircuit /\ CircuitClone(keep)

\* new QuantumCircuit(1), no StateVector constructed
InitCircuitClone ==
  /\ svPhase = "unborn"
  /\ svNumQubits = 0
  /\ svVector = ZeroVector(0)
  /\ svLast = NoCall
  /\ svPrev = NoCall
  /\ svTracing = FALSE
  /\ svTrace = NoTrace
  /\ svOther = NoVector
  /\ qubits = <<NewQubit>>
  /\ operations = <<>>
  /\ qcLast = Returned("new", <<>>, <<>>)
  /\ qcOther = NoCircuit

SpecCircuitClone == InitCircuitClone /\ [][NextCircuitClone]_vars

\* C16: a QuantumCircuit and its clone are independent: at the clone both
\* circuits hold the same qubit amplitudes and the same operation sequence,
\* and no later addGate, initialize, execute, measure, measureAll or reset
\* on one of them changes the qubits or the operations of the other.
C16_CloneIndependent ==
  [][/\ qcLast'.op = "clone" => /\ qcOther'.qubits = qubits'
                                /\ qcOther'.operations = operations'
     /\ qcLast'.op # "clone" => qcOther' = qcOther]_vars

====
